---- MODULE Spec2Model ----
(***************************************************************************)
(* A model of AlgoCrawl: the URL Frontier (src/src/utils/urlQueue.ts), the *)
(* Crawl Engine loop (src/src/crawlerEngine.ts), the Interaction Executor  *)
(* with its dynamic-depth driver                                           *)
(* (src/src/interactions/elementInteractor.ts), the Interaction Ledger     *)
(* (src/src/utils/interactionTracker.ts) and the Form Executor             *)
(* (src/src/interactions/formHandler.ts).                                  *)
(*                                                                         *)
(* A URL string is a record                                                *)
(*   [ok, host, segs, hasQ, q, frag]                                       *)
(* ok    - whether `new URL(s)` parses the string;                         *)
(* host  - the authority as written;                                       *)
(* segs  - the path split at "/": the path text is "/" followed by the     *)
(*         segments joined with "/", so <<"">> is "/", <<"a","">> is       *)
(*         "/a/", <<"a","","b">> is "/a//b", and <<>> is a string with no  *)
(*         path at all ("http://a.com");                                   *)
(* hasQ,q- whether a "?" is present and the key/value pairs after it;      *)
(* frag  - <<>> when there is no "#", else the text after "#" split at     *)
(*         "/" (<<"">> is "#", <<"s","">> is "#s/").                       *)
(* Two strings are equal exactly when their records are equal.             *)
(***************************************************************************)
EXTENDS Integers, Sequences, FiniteSets, TLC

VARIABLES
  queue,               \* UrlQueue.queue: a Set, kept in insertion order
  visited,             \* UrlQueue.visited
  currentDepth,        \* UrlQueue.currentDepth: Map<string, number>
  maxDepth,            \* UrlQueue.maxDepth (configuration)
  maxPagesPerDomain,   \* UrlQueue.maxPagesPerDomain (configuration)
  ignoreQueryParams,   \* UrlQueue.ignoreQueryParams (configuration)
  ignoreHashFragments, \* UrlQueue.ignoreHashFragments (configuration)
  pc,                  \* position of crawlPage / interactWithElements
  currentUrl,          \* crawlPage: const currentUrl = urlQueue.next()
  curDepth,            \* crawlPage: const currentDepth
  results,             \* interactWithElements: results
  elementsToProcess,   \* interactWithElements: the work queue
  processedElements,   \* interactWithElements: Set of processed keys
  previousElements,    \* interactWithElements: Set of seen keys
  lastOp,              \* the last Frontier call, its arguments and result
  returned,            \* the URLs next() has returned so far
  interacted,          \* the keys interactWithElement was invoked with
  reveals,             \* the reveal events of the current page pass
  elements,            \* interactWithElements: the elements argument
  lastClick,           \* the last interactWithElement call and what it did
  interactedElements,  \* InteractionTracker.interactedElements (elementInteractor.ts)
  interactedForms,     \* InteractionTracker.interactedForms (formHandler.ts)
  visitedUrls,         \* InteractionTracker.visitedUrls (formHandler.ts)
  formPc,              \* position of interactWithForms
  formsUrl,            \* interactWithForms: const currentUrl = page.url()
  forms,               \* interactWithForms: const forms = page.$$('form')
  batchStart,          \* interactWithForms: the loop index i
  task,                \* position of the async callback of each form
  values,              \* the field values of the form on each isolated page
  openPages,           \* the isolated pages (by form index) that are open
  formResults,         \* interactWithForms: results
  calls,               \* the number of interactWithForms calls so far
  successes,           \* per (URL, form identity), the successes pushed
  recordedBy,          \* the forms of this call that wrote to the Ledger
  processedJavaScriptFunctions, \* elementInteractor.ts: module-level Set
  xpc,                 \* position of the interactWithElement call in progress
  xElement,            \* interactWithElement: the element argument
  xResult,             \* interactWithElement: the result being returned
  attempts,            \* smartClick: the strategies tried so far in this call
  invoked,             \* the javascript: keys whose element a click reached
  listeners,           \* the calls whose onResponse listener is on the page
  captured,            \* per call, its ajaxResponses array (by arrival)
  inflight,            \* the xhr/fetch requests not answered yet (by origin)
  events,              \* the Frontier, form and goto calls of this call
  pageUrl,             \* page.url() of the shared live page of the pass
  urlBefore,           \* page.url() just before the click of this call
  delivered,           \* whether a strategy of smartClick clicked the element
  changed              \* what waitForDynamicChanges returned in this call

vars == <<queue, visited, currentDepth, maxDepth, maxPagesPerDomain,
          ignoreQueryParams, ignoreHashFragments,
          pc, currentUrl, curDepth, results, elementsToProcess,
          processedElements, previousElements, lastOp, returned, interacted,
          reveals, elements, lastClick, interactedElements, interactedForms,
          visitedUrls, formPc, formsUrl, forms, batchStart, task, values,
          openPages, formResults, calls, successes, recordedBy,
          processedJavaScriptFunctions, xpc, xElement, xResult, attempts,
          invoked, listeners, captured, inflight, events,
          pageUrl, urlBefore, delivered, changed>>

frontierVars == <<queue, visited, currentDepth>>
driverVars == <<elementsToProcess, processedElements, previousElements,
                interacted, reveals, elements, lastClick>>
ledgerVars == <<interactedElements, interactedForms, visitedUrls>>
formVars == <<formPc, formsUrl, forms, batchStart, task, values, openPages,
              formResults, calls, successes, recordedBy>>
clickVars == <<xpc, xElement, xResult, attempts, invoked, listeners, captured,
               inflight, events, pageUrl, urlBefore, delivered, changed>>
execVars == <<processedJavaScriptFunctions, clickVars>>

----
(* Sequences *)

Range(s) == {s[i] : i \in 1..Len(s)}

Last(s) == s[Len(s)]

Front(s) == SubSeq(s, 1, Len(s) - 1)

----
(* URL strings *)

NoUrl == [ok |-> FALSE, host |-> "", segs |-> <<>>, hasQ |-> FALSE,
          q |-> <<>>, frag |-> <<>>]

BadUrl == [ok |-> FALSE, host |-> "not a url", segs |-> <<>>, hasQ |-> FALSE,
           q |-> <<>>, frag |-> <<>>]

Url(h, segs, hasQ, q, frag) ==
  [ok |-> TRUE, host |-> h, segs |-> segs, hasQ |-> hasQ, q |-> q, frag |-> frag]

\* String.prototype.toLowerCase on the host names of the model
toLowerCase(h) == IF h = "A.com" THEN "a.com" ELSE h

\* new URL(s): the parsed URL of a string (hostname lower-cased, an absent
\* path is "/"); only used on strings with ok = TRUE
parseUrl(s) ==
  [s EXCEPT !.host = toLowerCase(s.host),
            !.segs = IF s.segs = <<>> THEN <<"">> ELSE s.segs]

hostname(s) == parseUrl(s).host

pathname(s) == parseUrl(s).segs

\* /\/(index|default)\.(php|html|htm|asp|aspx)$/i on the last segment
IsDefaultDocument(seg) == seg \in {"index.php", "index.html", "Default.aspx"}

\* pathname.replace(/\/+/g, '/'): every run of separators becomes one
CollapseSeparators(segs) ==
  SelectSeq(Front(segs), LAMBDA x : x # "") \o <<Last(segs)>>

\* pathname.replace(/\/+$/, ''): after collapsing, at most one is left
StripTrailingSeparators(segs) ==
  IF Last(segs) = "" THEN Front(segs) ELSE segs

\* pathname.replace(/\/(index|default)\.(php|html|htm|asp|aspx)$/i, '/')
StripDefaultDocument(segs) ==
  IF segs # <<>> /\ IsDefaultDocument(Last(segs))
  THEN Front(segs) \o <<"">>
  ELSE segs

\* url.pathname = pathname: an empty path of an http URL is "/"
SetPathname(segs) == IF segs = <<>> THEN <<"">> ELSE segs

normalizePathname(segs) ==
  SetPathname(StripDefaultDocument(StripTrailingSeparators(CollapseSeparators(segs))))

\* a.localeCompare(b) < 0 on the query keys of the model
KeyRank(k) == CASE k = "a" -> 1 [] k = "k" -> 2 [] OTHER -> 3

RECURSIVE InsertSorted(_, _)
InsertSorted(pair, sorted) ==
  IF sorted = <<>> THEN <<pair>>
  ELSE IF KeyRank(pair[1]) < KeyRank(sorted[1][1])
       THEN <<pair>> \o sorted
       ELSE <<sorted[1]>> \o InsertSorted(pair, Tail(sorted))

\* Array.prototype.sort with ([a], [b]) => a.localeCompare(b): stable
RECURSIVE SortParams(_)
SortParams(q) ==
  IF q = <<>> THEN <<>>
  ELSE InsertSorted(q[Len(q)], SortParams(Front(q)))

\* URLSearchParams parsing followed by toString(): "/" is percent-encoded
EncodeValue(v) == IF v = "/" THEN "%2F" ELSE v

EncodeParams(q) == [i \in 1..Len(q) |-> <<q[i][1], EncodeValue(q[i][2])>>]

\* url.toString().replace(/\/$/, ''): one trailing "/" of the whole string
StripFinalSeparator(s) ==
  IF s.frag # <<>>
  THEN IF Len(s.frag) >= 2 /\ Last(s.frag) = ""
       THEN [s EXCEPT !.frag = Front(s.frag)] ELSE s
  ELSE IF s.hasQ
  THEN IF s.q # <<>> /\ Last(s.q)[2] = "/"
       THEN [s EXCEPT !.q = Front(s.q) \o <<<<Last(s.q)[1], "">>>>] ELSE s
  ELSE IF Last(s.segs) = "" THEN [s EXCEPT !.segs = Front(s.segs)] ELSE s

normalizeUrlWith(s, ignQ, ignH) ==
  IF ~s.ok THEN s
  ELSE LET u  == parseUrl(s)
           p  == normalizePathname(u.segs)
           sq == IF ignQ THEN <<>> ELSE EncodeParams(SortParams(u.q))
           f  == IF ignH THEN <<>> ELSE u.frag
       IN StripFinalSeparator(Url(toLowerCase(u.host), p, sq # <<>>, sq, f))

normalizeUrl(s) == normalizeUrlWith(s, ignoreQueryParams, ignoreHashFragments)

----
(* Configuration (src/src/types/config.ts) and the pages of the site *)

\* the largest maxDepth and maxPagesPerDomain of the configurations explored
MaxDepthCfg == 2

MaxPagesCfg == 3

allowedDomains == {"a.com"}

startUrl == Url("a.com", <<"">>, FALSE, <<>>, <<>>)

\* the hrefs analyzePage can return on a page of the site
Links ==
  { Url("a.com", <<"">>, FALSE, <<>>, <<>>),
    Url("a.com", <<"p">>, FALSE, <<>>, <<>>),
    Url("a.com", <<"p">>, TRUE, <<<<"k", "1">>>>, <<>>),
    Url("a.com", <<"x", "index.php">>, TRUE, <<<<"k", "1">>>>, <<>>),
    Url("www.a.com", <<"s">>, FALSE, <<>>, <<>>),
    BadUrl }

\* the values page.url() can have after a click
PageUrls ==
  { Url("a.com", <<"">>, FALSE, <<>>, <<>>),
    Url("a.com", <<"n">>, FALSE, <<>>, <<>>),
    Url("a.com", <<"p">>, FALSE, <<>>, <<"s">>),
    Url("www.a.com", <<"s">>, FALSE, <<>>, <<>>),
    Url("b.org", <<"">>, FALSE, <<>>, <<>>) }

----
(* UrlQueue *)

\* Set.prototype.add on a Set kept in insertion order
SetAdd(s, x) == IF x \in Range(s) THEN s ELSE Append(s, x)

\* Map.prototype.set
MapSet(m, k, v) == [x \in DOMAIN m \cup {k} |-> IF x = k THEN v ELSE m[x]]

shouldProcessUrl_NoDepth(url, depth) ==
  LET normalizedUrl == normalizeUrl(url) IN
  IF normalizedUrl \in visited \/ normalizedUrl \in Range(queue) THEN FALSE
  ELSE IF ~url.ok THEN FALSE
  ELSE LET domain == hostname(url)
           path == pathname(url)
           hasVisitedPath ==
             \E visitedUrl \in visited :
               /\ visitedUrl.ok
               /\ hostname(visitedUrl) = domain
               /\ pathname(visitedUrl) = path
           domainVisitCount ==
             Cardinality({visitedUrl \in visited :
                            visitedUrl.ok /\ hostname(visitedUrl) = domain})
       IN IF domain \notin allowedDomains THEN FALSE
          ELSE IF hasVisitedPath THEN FALSE
          ELSE domainVisitCount < maxPagesPerDomain

shouldProcessUrl_NoCap(url, depth) ==
  LET normalizedUrl == normalizeUrl(url) IN
  IF normalizedUrl \in visited \/ normalizedUrl \in Range(queue) THEN FALSE
  ELSE IF depth > maxDepth THEN FALSE
  ELSE IF ~url.ok THEN FALSE
  ELSE LET domain == hostname(url)
           path == pathname(url)
           hasVisitedPath ==
             \E visitedUrl \in visited :
               /\ visitedUrl.ok
               /\ hostname(visitedUrl) = domain
               /\ pathname(visitedUrl) = path
           domainVisitCount ==
             Cardinality({visitedUrl \in visited :
                            visitedUrl.ok /\ hostname(visitedUrl) = domain})
       IN IF domain \notin allowedDomains THEN FALSE
          ELSE IF hasVisitedPath THEN FALSE
          ELSE TRUE

\* the catch block of shouldProcessUrl returns true
shouldProcessUrl_CatchAdmits(url, depth) ==
  LET normalizedUrl == normalizeUrl(url) IN
  IF normalizedUrl \in visited \/ normalizedUrl \in Range(queue) THEN FALSE
  ELSE IF depth > maxDepth THEN FALSE
  ELSE IF ~url.ok THEN TRUE
  ELSE LET domain == hostname(url)
           path == pathname(url)
           hasVisitedPath ==
             \E visitedUrl \in visited :
               /\ visitedUrl.ok
               /\ hostname(visitedUrl) = domain
               /\ pathname(visitedUrl) = path
           domainVisitCount ==
             Cardinality({visitedUrl \in visited :
                            visitedUrl.ok /\ hostname(visitedUrl) = domain})
       IN IF domain \notin allowedDomains THEN FALSE
          ELSE IF hasVisitedPath THEN FALSE
          ELSE domainVisitCount < maxPagesPerDomain

shouldProcessUrl(url, depth) ==
  LET normalizedUrl == normalizeUrl(url) IN
  IF normalizedUrl \in visited \/ normalizedUrl \in Range(queue) THEN FALSE
  ELSE IF depth > maxDepth THEN FALSE
  ELSE IF ~url.ok THEN FALSE
  ELSE LET domain == hostname(url)
           path == pathname(url)
           hasVisitedPath ==
             \E visitedUrl \in visited :
               /\ visitedUrl.ok
               /\ hostname(visitedUrl) = domain
               /\ pathname(visitedUrl) = path
           domainVisitCount ==
             Cardinality({visitedUrl \in visited :
                            visitedUrl.ok /\ hostname(visitedUrl) = domain})
       IN IF domain \notin allowedDomains THEN FALSE
          ELSE IF hasVisitedPath THEN FALSE
          ELSE domainVisitCount < maxPagesPerDomain

\* const normalizedUrl = this.normalizeUrl(url);
\* if (this.shouldProcessUrl(normalizedUrl, depth)) { ...; return true }
\* return false
add(url, depth) ==
  \E normalizedUrl \in {normalizeUrl(url)} :
    \E admitted \in {shouldProcessUrl(normalizedUrl, depth)} :
      /\ queue' = IF admitted THEN SetAdd(queue, normalizedUrl) ELSE queue
      /\ currentDepth' = IF admitted
                         THEN MapSet(currentDepth, normalizedUrl, depth)
                         ELSE currentDepth
      /\ lastOp' = [op |-> "add", url |-> url, depth |-> depth, ret |-> admitted]

next_NoVisited ==
  /\ queue # <<>>
  /\ queue' = Tail(queue)
  /\ visited' = visited
  /\ returned' = returned \cup {Head(queue)}
  /\ lastOp' = [op |-> "next", url |-> Head(queue), depth |-> 0, ret |-> TRUE]

next_NoDelete ==
  /\ queue # <<>>
  /\ queue' = queue
  /\ visited' = visited \cup {Head(queue)}
  /\ returned' = returned \cup {Head(queue)}
  /\ lastOp' = [op |-> "next", url |-> Head(queue), depth |-> 0, ret |-> TRUE]

\* const nextValue = this.queue.values().next().value;
\* this.queue.delete(nextValue); this.visited.add(nextValue)
next ==
  /\ queue # <<>>
  /\ queue' = Tail(queue)
  /\ visited' = visited \cup {Head(queue)}
  /\ returned' = returned \cup {Head(queue)}
  /\ lastOp' = [op |-> "next", url |-> Head(queue), depth |-> 0, ret |-> TRUE]

getCurrentDepth(url) ==
  IF normalizeUrl(url) \in DOMAIN currentDepth
  THEN currentDepth[normalizeUrl(url)]
  ELSE 0

hasBeenVisited(url) == normalizeUrl(url) \in visited

----
(* urlUtils *)

\* urlObj.hostname.endsWith(`.${domain}`), `www.${domain}` included
IsSubdomainOf(h, domain) == h = "www.a.com" /\ domain = "a.com"

isUrlAllowed(url, domains) ==
  /\ url.ok
  /\ \E domain \in domains :
       hostname(url) = domain \/ IsSubdomainOf(hostname(url), domain)

\* skipDomains.some(domain => urlObj.hostname.includes(domain)), on the
\* host names of the model
IsSkipDomain(h) == h \in {"analytics.a.com"}

\* urlUtils.shouldProcessUrl: http(s) only, not an analytics or tracking
\* host, and within the allowed domains
urlUtilsShouldProcessUrl(url, domains) ==
  /\ url.ok
  /\ ~IsSkipDomain(hostname(url))
  /\ isUrlAllowed(url, domains)

----
(* ClickableElement and the outcome of a click *)

MaxResults == 1

MaxElements == 2

Element(type, text, selector, reason, href) ==
  [type |-> type, text |-> text, selector |-> selector,
   interactiveReason |-> reason, href |-> href]

\* element.href is undefined (or empty)
NoHref == NoUrl

eMore == Element("button", "More", "button", "button", NoHref)

eMenu == Element("div", "", "div#menu", "onclick", NoHref)

eTab == Element("span", "Tab", "[role=tab]", "role", NoHref)

\* two links that differ in their href only
eReadP == Element("link", "Read more", "a", "href",
                  Url("a.com", <<"p">>, FALSE, <<>>, <<>>))

eReadN == Element("link", "Read more", "a", "href",
                  Url("a.com", <<"n">>, FALSE, <<>>, <<>>))

\* two links that leave the allowed domains, one of them with a query
eOut == Element("link", "Partner", "a.out", "href",
                Url("b.org", <<"">>, FALSE, <<>>, <<>>))

eOutQ == Element("link", "Track", "a.trk", "href",
                 Url("b.org", <<"">>, TRUE, <<<<"k", "1">>>>, <<>>))

\* the elements findClickableElements can return on the page
Elements == {eMore, eMenu, eTab, eReadP, eReadN, eOut, eOutQ}

\* the elements analyzePage can hand to the driver at the start of a pass
InitialElements == {eMore, eOut, eOutQ}

\* the lists findClickableElements can return after a click
FoundLists ==
  { <<>>, <<eMenu>>, <<eMenu, eTab>>, <<eReadP, eReadN>>, <<eMore, eReadN>> }

\* [type, text, selector, reasons].filter(Boolean).join('|')
createElementIdentifier(element) ==
  SelectSeq(<<element.type, element.text, element.selector,
              element.interactiveReason>>, LAMBDA part : part # "")

Keys(list) == {createElementIdentifier(list[i]) : i \in 1..Len(list)}

SeqsUpTo(S, n) == UNION {[1..k -> S] : k \in 0..n}

\* what the page does when the element is clicked: kind "fail" is every
\* return with success = false after the pre-check (not found, not visible,
\* click failed, exception) and kind "skipped" a return of the pre-check;
\* for kind "click", newUrl is page.url() after the waits, newElements the
\* re-classification, ajax whether an xhr/fetch response was captured
Outcome(kind, newUrl, newElements, ajax) ==
  [kind |-> kind, newUrl |-> newUrl, newElements |-> newElements, ajax |-> ajax]

FailOutcome == Outcome("fail", NoUrl, <<>>, FALSE)

SkippedOutcome == Outcome("skipped", NoUrl, <<>>, FALSE)

CrawlOutcomes ==
  {FailOutcome} \cup
  {Outcome("click", u, f, FALSE) :
     u \in PageUrls, f \in {<<>>, <<eMore>>}}

\* the values page.url() can have after a click in the page pass of
\* http://a.com/p: the page itself, another page of the site, a page of
\* another site
pageP == Url("a.com", <<"p">>, FALSE, <<>>, <<>>)

pageN == Url("a.com", <<"n">>, FALSE, <<>>, <<>>)

pageOut == Url("b.org", <<"">>, TRUE, <<<<"k", "1">>>>, <<>>)

DriverPageUrls == {pageP, pageN, pageOut}

\* what a click can do in the page pass: nothing, reveal elements with or
\* without an AJAX response, navigate with or without new elements
DriverOutcomes ==
  {FailOutcome} \cup
  {Outcome("click", pageP, f, FALSE) : f \in FoundLists} \cup
  {Outcome("click", u, <<eMenu>>, TRUE) : u \in {pageP, pageN}} \cup
  {Outcome("click", pageN, f, FALSE) : f \in {<<>>, <<eMenu>>}} \cup
  {Outcome("click", pageOut, <<>>, FALSE)}

----
(* interactWithElement: the pre-check of the href, the classification of *)
(* the outcome and the navigation branch                                 *)

\* normalizedHref = new URL(element.href).href
hrefOf(url) == IF url.ok THEN parseUrl(url) ELSE url

\* normalizedHref.includes('AJAX')
IncludesAJAX(url) == "AJAX" \in Range(url.segs)

\* queryParams = url.search: empty when there is no query text
queryParams(url) == url.ok /\ url.q # <<>>

\* a javascript: pseudo-URL as element.href: new URL does not resolve it to
\* a page, body is the text after the scheme
JsHref(body) ==
  [ok |-> FALSE, host |-> "javascript:", segs |-> <<body>>, hasQ |-> FALSE,
   q |-> <<>>, frag |-> <<>>]

\* element.href.startsWith('javascript:')
IsJavaScript(href) == href.host = "javascript:"

\* `${jsFunction}|${element.text}` with jsFunction = href.substring(11); no
\* script body and no text of the model holds a "|"
functionKey(element) == <<element.href.segs[1], "|", element.text>>

\* processedJavaScriptFunctions.add(functionKey), reached when the href is
\* a javascript: one and the key is not in the set
recordFunction(element) ==
  IF element.href # NoHref /\ IsJavaScript(element.href)
  THEN processedJavaScriptFunctions \cup {functionKey(element)}
  ELSE processedJavaScriptFunctions

PreCheck_QueryBlind(element) ==
  LET href == element.href
      normalizedHref == hrefOf(href)
  IN IF href = NoHref THEN "pass"
     ELSE IF IsJavaScript(href)
     THEN IF functionKey(element) \in processedJavaScriptFunctions
          THEN "called" ELSE "pass"
     ELSE IF /\ ~IncludesAJAX(normalizedHref)
             /\ ~urlUtilsShouldProcessUrl(normalizedHref, allowedDomains)
     THEN "scope"
     ELSE IF /\ ~IncludesAJAX(normalizedHref)
             /\ href.frag = <<>>
             /\ hasBeenVisited(normalizedHref)
     THEN "visited"
     ELSE "pass"

\* the pre-check of an element with an href: "called", "scope" and
\* "visited" are the three early returns, all with skippedDueToScope = true
PreCheck(element) ==
  LET href == element.href
      normalizedHref == hrefOf(href)
  IN IF href = NoHref THEN "pass"
     ELSE IF IsJavaScript(href)
     THEN IF functionKey(element) \in processedJavaScriptFunctions
          THEN "called" ELSE "pass"
     ELSE IF /\ ~IncludesAJAX(normalizedHref)
             /\ ~queryParams(href)
             /\ ~urlUtilsShouldProcessUrl(normalizedHref, allowedDomains)
     THEN "scope"
     ELSE IF /\ ~IncludesAJAX(normalizedHref)
             /\ href.frag = <<>>
             /\ hasBeenVisited(normalizedHref)
             /\ ~queryParams(href)
     THEN "visited"
     ELSE "pass"

causedNavigation(o) == o.newUrl # currentUrl

FoundBranch_NoAjax(o) ==
  o.kind = "click" /\ Len(o.newElements) > 0 /\ ~causedNavigation(o)

\* newElements.length > 0 && (ajaxResponses.length > 0 || !causedNavigation)
FoundBranch(o) ==
  o.kind = "click" /\ Len(o.newElements) > 0 /\ (o.ajax \/ ~causedNavigation(o))

\* causedNavigation && !newUrl.includes('#')
NavigationBranch(o) ==
  o.kind = "click" /\ ~FoundBranch(o) /\ causedNavigation(o) /\ o.newUrl.frag = <<>>

\* !skippedDueToScope && !options.urlQueue.hasBeenVisited(newUrl)
RegistersNavigation(o) ==
  /\ NavigationBranch(o)
  /\ isUrlAllowed(o.newUrl, allowedDomains)
  /\ ~hasBeenVisited(o.newUrl)

\* the InteractionResult returned; absent fields are FALSE, NoUrl and <<>>
InteractionResult(o) ==
  IF o.kind = "skipped"
  THEN [success |-> FALSE, causedNavigation |-> FALSE, newUrl |-> NoUrl,
        newElementsFound |-> <<>>, skippedDueToScope |-> TRUE,
        dynamicChangesDetected |-> FALSE, ajaxResponses |-> FALSE]
  ELSE IF o.kind = "fail"
  THEN [success |-> FALSE, causedNavigation |-> FALSE, newUrl |-> NoUrl,
        newElementsFound |-> <<>>, skippedDueToScope |-> FALSE,
        dynamicChangesDetected |-> FALSE, ajaxResponses |-> FALSE]
  ELSE IF FoundBranch(o)
  THEN [success |-> TRUE, causedNavigation |-> FALSE, newUrl |-> NoUrl,
        newElementsFound |-> o.newElements, skippedDueToScope |-> FALSE,
        dynamicChangesDetected |-> TRUE, ajaxResponses |-> o.ajax]
  ELSE IF NavigationBranch(o)
  THEN [success |-> TRUE, causedNavigation |-> TRUE, newUrl |-> o.newUrl,
        newElementsFound |-> <<>>,
        skippedDueToScope |-> ~isUrlAllowed(o.newUrl, allowedDomains),
        dynamicChangesDetected |-> TRUE, ajaxResponses |-> o.ajax]
  ELSE [success |-> TRUE, causedNavigation |-> FALSE, newUrl |-> NoUrl,
        newElementsFound |-> o.newElements, skippedDueToScope |-> FALSE,
        dynamicChangesDetected |-> TRUE, ajaxResponses |-> o.ajax]

\* (options.urlQueue as any).visited.add(normalizedUrl)
visitedAfterNavigation(o) == visited \cup {normalizeUrl(o.newUrl)}

interactWithElement_add_SameDepth(o) ==
  add(o.newUrl, getCurrentDepth(currentUrl))

\* options.urlQueue.add(newUrl, getCurrentDepth(options.startUrl) + 1)
interactWithElement_add(o) ==
  add(o.newUrl, getCurrentDepth(currentUrl) + 1)

interactWithElement(o) ==
  IF RegistersNavigation(o)
  THEN /\ interactWithElement_add(o)
       /\ visited' = visitedAfterNavigation(o)
  ELSE UNCHANGED <<queue, visited, currentDepth, lastOp>>

----
(* InteractionTracker: the form and URL sets of the Ledger.  A string of  *)
(* the Ledger is a sequence of tokens, pieces of text chosen so that none *)
(* occurs inside another or across the border of two others; "<", ">",    *)
(* "#" and "?" are tokens of their own                                    *)

\* the values of page.url() on which interactWithForms is called
uS == <<"http://a.com", "/", "s">>

uSQ == <<"http://a.com", "/", "s", "?", "q=1">>

uT == <<"http://a.com", "/", "t">>

FormPageUrls == {uS, uSQ, uT}

\* String.prototype.includes
Includes(hay, needle) ==
  \E i \in 0..(Len(hay) - Len(needle)) :
    SubSeq(hay, i + 1, i + Len(needle)) = needle

\* the index of the first "?" or "#" of the string, or 0
RECURSIVE FirstDelimiter(_, _)
FirstDelimiter(str, i) ==
  IF i > Len(str) THEN 0
  ELSE IF str[i] \in {"?", "#"} THEN i
  ELSE FirstDelimiter(str, i + 1)

\* InteractionTracker.normalizeUrl: search and hash are emptied
trackerNormalizeUrl(url) ==
  LET d == FirstDelimiter(url, 1)
  IN IF d = 0 THEN url ELSE SubSeq(url, 1, d - 1)

\* `${url}#${formIdentifier}`
createUniqueFormId(formIdentifier, url) == url \o <<"#">> \o formIdentifier

\* formIdentifier.replace(/[<>]/g, '')
formWithoutUrl(formIdentifier) ==
  SelectSeq(formIdentifier, LAMBDA c : c \notin {"<", ">"})

hasFormBeenInteracted(formIdentifier, url) ==
  \/ createUniqueFormId(formIdentifier, url) \in interactedForms
  \/ \E id \in interactedForms : Includes(id, formWithoutUrl(formIdentifier))

addVisitedUrl_Never(url) == visitedUrls

addVisitedUrl(url) == visitedUrls \cup {trackerNormalizeUrl(url)}

hasUrlBeenVisited(url) == trackerNormalizeUrl(url) \in visitedUrls

addInteractedForm(formIdentifier, url) ==
  /\ interactedForms' =
       interactedForms \cup {createUniqueFormId(formIdentifier, url)}
  /\ visitedUrls' = addVisitedUrl(url)

----
(* The forms of a page and their fields *)

Field(type, visible, value) ==
  [type |-> type, isVisible |-> visible, value |-> value]

Form(id, name, method, action, fields) ==
  [id |-> id, name |-> name, method |-> method, action |-> action,
   fields |-> fields]

fContact ==
  Form(<<"contact">>, <<>>, "post", <<"/", "contact">>,
       << Field("hidden", FALSE, "tok"), Field("email", TRUE, ""),
          Field("textarea", TRUE, ""), Field("submit", TRUE, "Send") >>)

\* a form without id and name
fSearch ==
  Form(<<>>, <<>>, "get", <<"/", "search">>,
       << Field("text", TRUE, ""), Field("select", TRUE, "all"),
          Field("submit", TRUE, "Go") >>)

\* a form with a field the page keeps invisible
fLogin ==
  Form(<<>>, <<"login">>, "post", <<"/", "login">>,
       << Field("email", FALSE, ""), Field("password", TRUE, "") >>)

\* a form whose id attribute has an angle bracket in it
fTagged ==
  Form(<<"a", "<", "b">>, <<>>, "get", <<"/", "x">>,
       << Field("text", FALSE, "") >>)

\* a form whose name is a piece of the identifier of the anonymous form
fFind ==
  Form(<<>>, <<"search">>, "get", <<"/", "find">>,
       << Field("text", TRUE, ""), Field("submit", TRUE, "Find") >>)

\* what page.$$('form') can return
FormLists ==
  { <<>>, <<fContact>>, <<fSearch, fSearch>>, <<fTagged, fLogin>>,
    <<fContact, fLogin, fSearch, fTagged>>, <<fSearch, fFind>> }

\* formDetails.id || formDetails.name || `<unnamed_form_${method}_${action}>`
formIdOf(form) ==
  IF form.id # <<>> THEN form.id
  ELSE IF form.name # <<>> THEN form.name
  ELSE <<"<", "unnamed_form_", form.method, "_">> \o form.action \o <<">">>

\* the formId of the catch block: id, name or '<unnamed_form>'
failedFormIdOf(form) ==
  IF form.id # <<>> THEN form.id
  ELSE IF form.name # <<>> THEN form.name
  ELSE <<"<", "unnamed_form", ">">>

\* ['submit', 'button', 'image', 'reset'].includes(type)
IsButtonType(type) == type \in {"submit", "button", "image", "reset"}

\* the value of a field after the fill loop.  field.fill throws on a
\* <select> and the assignment by evaluate is guarded by instanceof, so a
\* select keeps its value; checkbox and radio are checked, not given a value
filledValue(field) ==
  CASE IsButtonType(field.type) -> field.value
    [] field.type = "hidden" -> "Test Input"
    [] field.type = "email" ->
         IF field.isVisible THEN "test@example.com" ELSE field.value
    [] field.type = "password" ->
         IF field.isVisible THEN "DummyPassword123!" ELSE field.value
    [] field.type = "tel" ->
         IF field.isVisible THEN "1234567890" ELSE field.value
    [] field.type = "number" ->
         IF field.isVisible THEN "42" ELSE field.value
    [] field.type \in {"checkbox", "radio", "select"} -> field.value
    [] field.type = "textarea" -> "Test Message Content"
    [] OTHER -> "Test Input"

fillFields(form) == [k \in 1..Len(form.fields) |-> filledValue(form.fields[k])]

----
(* crawlPage *)

NoOp == [op |-> "none", url |-> NoUrl, depth |-> 0, ret |-> FALSE]

\* no interactWithElement call yet
NoClick ==
  [href |-> NoHref, clicked |-> FALSE, found |-> FALSE, ajax |-> FALSE,
   urlChanged |-> FALSE, formsCalled |-> FALSE, wentBack |-> FALSE]

\* new InteractionTracker(), once per module that creates one
InitLedger ==
  /\ interactedElements = {}
  /\ interactedForms = {}
  /\ visitedUrls = {}

\* no element yet
NoElement == Element("", "", "", "", NoHref)

\* the module state of elementInteractor.ts before any interactWithElement
\* call
InitExecutor ==
  /\ processedJavaScriptFunctions = {}
  /\ xpc = "loop"
  /\ xElement = NoElement
  /\ xResult = <<>>
  /\ attempts = <<>>
  /\ invoked = {}
  /\ listeners = {}
  /\ captured = <<>>
  /\ inflight = {}
  /\ events = <<>>
  /\ pageUrl = NoUrl
  /\ urlBefore = NoUrl
  /\ delivered = FALSE
  /\ changed = FALSE

\* no interactWithForms call yet
InitForms ==
  /\ formPc = "idle"
  /\ formsUrl = <<>>
  /\ forms = <<>>
  /\ batchStart = 0
  /\ task = <<>>
  /\ values = <<>>
  /\ openPages = {}
  /\ formResults = <<>>
  /\ calls = 0
  /\ successes = <<>>
  /\ recordedBy = {}

Init ==
  /\ queue = <<>>
  /\ visited = {}
  /\ currentDepth = <<>>
  /\ maxDepth \in 1..MaxDepthCfg
  /\ maxPagesPerDomain \in 1..MaxPagesCfg
  /\ ignoreQueryParams \in BOOLEAN
  /\ ignoreHashFragments \in BOOLEAN
  /\ pc = "start"
  /\ currentUrl = NoUrl
  /\ curDepth = 0
  /\ results = <<>>
  /\ elementsToProcess = <<>>
  /\ processedElements = {}
  /\ previousElements = {}
  /\ lastOp = NoOp
  /\ returned = {}
  /\ interacted = <<>>
  /\ reveals = {}
  /\ elements = <<>>
  /\ lastClick = NoClick
  /\ InitLedger
  /\ InitForms
  /\ InitExecutor

configVars == <<maxDepth, maxPagesPerDomain, ignoreQueryParams,
                ignoreHashFragments>>

\* urlQueue.add(config.startUrl)
Start ==
  /\ pc = "start"
  /\ add(startUrl, 0)
  /\ pc' = "loop"
  /\ UNCHANGED <<visited, returned, currentUrl, curDepth, results,
                 configVars, ledgerVars, formVars, execVars,
                 driverVars>>

\* const currentUrl = urlQueue.next(); const currentDepth = getCurrentDepth
Dequeue ==
  /\ pc = "loop"
  /\ next
  /\ currentUrl' = Head(queue)
  /\ curDepth' = getCurrentDepth(Head(queue))
  /\ pc' = "page"
  /\ UNCHANGED <<currentDepth, results,
                 configVars, ledgerVars, formVars, execVars, driverVars>>

\* if (!currentUrl) break
Finish ==
  /\ pc = "loop"
  /\ queue = <<>>
  /\ pc' = "done"
  /\ UNCHANGED <<frontierVars, currentUrl, curDepth, results, lastOp, returned,
                 configVars, ledgerVars, formVars, execVars, driverVars>>

\* context.newPage() throws: outside the page-level try, caught by the
\* outer catch, which ends the crawl
NewPageFails ==
  /\ pc = "page"
  /\ pc' = "fatal"
  /\ UNCHANGED <<frontierVars, currentUrl, curDepth, results, lastOp, returned,
                 configVars, ledgerVars, formVars, execVars, driverVars>>

\* page.goto and analyzePage return
Analyze ==
  /\ pc = "page"
  /\ pc' = "links"
  /\ UNCHANGED <<frontierVars, currentUrl, curDepth, results, lastOp, returned,
                 configVars, ledgerVars, formVars, execVars, driverVars>>

\* urlQueue.add(actualUrl, currentDepth + 1) for one link of analysis.links
AddLink(link) ==
  /\ pc = "links"
  /\ add(link, curDepth + 1)
  /\ UNCHANGED <<visited, returned, pc, currentUrl, curDepth, results,
                 configVars, ledgerVars, formVars, execVars, driverVars>>

LinksDone ==
  /\ pc = "links"
  /\ pc' = "elements"
  /\ UNCHANGED <<frontierVars, currentUrl, curDepth, results, lastOp, returned,
                 configVars, ledgerVars, formVars, execVars, driverVars>>

\* one interactWithElement call of the page pass, seen from the Frontier
Interact(o) ==
  /\ pc = "elements"
  /\ Len(results) < MaxResults
  /\ interactWithElement(o)
  /\ results' = Append(results, InteractionResult(o))
  /\ UNCHANGED <<returned, pc, currentUrl, curDepth,
                 configVars, ledgerVars, formVars, execVars, driverVars>>

ElementsDone ==
  /\ pc = "elements"
  /\ pc' = "post"
  /\ UNCHANGED <<frontierVars, currentUrl, curDepth, results, lastOp, returned,
                 configVars, ledgerVars, formVars, execVars, driverVars>>

\* for (const result of interactionResults)
\*   if (result.causedNavigation && result.newUrl) urlQueue.add(...)
AddNavigation ==
  /\ pc = "post"
  /\ results # <<>>
  /\ \/ /\ Head(results).causedNavigation /\ Head(results).newUrl # NoUrl
        /\ add(Head(results).newUrl, curDepth + 1)
     \/ /\ ~(Head(results).causedNavigation /\ Head(results).newUrl # NoUrl)
        /\ UNCHANGED <<queue, currentDepth, lastOp>>
  /\ results' = Tail(results)
  /\ UNCHANGED <<visited, returned, pc, currentUrl, curDepth,
                 configVars, ledgerVars, formVars, execVars,
                 driverVars>>

\* the end of the iteration: page.close() in finally, then the delay
PageDone ==
  /\ pc = "post"
  /\ results = <<>>
  /\ pc' = "loop"
  /\ currentUrl' = NoUrl
  /\ curDepth' = 0
  /\ UNCHANGED <<frontierVars, results, lastOp, returned,
                 configVars, ledgerVars, formVars, execVars, driverVars>>

\* an exception inside the page-level try: logged, the page is closed and
\* the loop goes on
PageFails ==
  /\ pc \in {"page", "links", "elements", "post"}
  /\ pc' = "loop"
  /\ currentUrl' = NoUrl
  /\ curDepth' = 0
  /\ results' = <<>>
  /\ UNCHANGED <<frontierVars, lastOp, returned,
                 configVars, ledgerVars, formVars, execVars, driverVars>>

Next ==
  \/ Start
  \/ Dequeue
  \/ Finish
  \/ NewPageFails
  \/ Analyze
  \/ \E link \in Links : AddLink(link)
  \/ LinksDone
  \/ \E o \in CrawlOutcomes : Interact(o)
  \/ ElementsDone
  \/ AddNavigation
  \/ PageDone
  \/ PageFails

Spec == Init /\ [][Next]_vars

----
(* interactWithElements: the dynamic-depth driver of one page pass *)

\* the page pass of http://a.com/p, dequeued at depth 1 after the start page
DriverPage == Url("a.com", <<"p">>, FALSE, <<>>, <<>>)

InitDriver ==
  /\ maxDepth = MaxDepthCfg
  /\ maxPagesPerDomain = MaxPagesCfg
  /\ ignoreQueryParams = FALSE
  /\ ignoreHashFragments = FALSE
  /\ queue = <<>>
  /\ visited = {normalizeUrl(startUrl), normalizeUrl(DriverPage)}
  /\ currentDepth = MapSet(MapSet(<<>>, normalizeUrl(startUrl), 0),
                           normalizeUrl(DriverPage), 1)
  /\ returned = visited
  /\ lastOp = [op |-> "next", url |-> normalizeUrl(DriverPage), depth |-> 0,
               ret |-> TRUE]
  /\ currentUrl = normalizeUrl(DriverPage)
  /\ curDepth = 1
  /\ pc = "driver"
  /\ results = <<>>
  /\ elements \in SeqsUpTo(InitialElements, MaxElements)
  /\ elementsToProcess = elements
  /\ processedElements = {}
  /\ previousElements = Keys(elements)
  /\ interacted = <<>>
  /\ reveals = {}
  /\ lastClick = NoClick
  /\ InitLedger
  /\ InitForms
  /\ InitExecutor

\* result.newElementsFound.filter(e => !previousElements.has(key) &&
\*                                     !processedElements.has(key))
trulyNewElements(found, previous, processed) ==
  SelectSeq(found, LAMBDA e : /\ createElementIdentifier(e) \notin previous
                              /\ createElementIdentifier(e) \notin processed)

unshift_AsPush(work, new) == work \o new

\* elementsToProcess.unshift(...trulyNewElements)
unshift(work, new) == new \o work

alreadyProcessed_Never(processed, elementKey) == FALSE

\* processedElements.has(elementKey)
alreadyProcessed(processed, elementKey) == elementKey \in processed

markProcessed_Forgot(processed, elementKey) == processed

\* processedElements.add(elementKey)
markProcessed(processed, elementKey) == processed \cup {elementKey}

\* if (processedElements.has(elementKey)) continue
DriverSkip ==
  /\ pc = "driver"
  /\ elementsToProcess # <<>>
  /\ alreadyProcessed(processedElements,
                      createElementIdentifier(Head(elementsToProcess)))
  /\ elementsToProcess' = Tail(elementsToProcess)
  /\ UNCHANGED <<frontierVars,
                 configVars, ledgerVars, formVars, execVars, pc, currentUrl,
                 curDepth, results, processedElements, previousElements,
                 lastOp, returned, interacted, reveals, elements, lastClick>>

\* InteractionTracker.hasElementBeenInteracted
hasElementBeenInteracted(elementIdentifier) ==
  elementIdentifier \in interactedElements

\* one iteration of the while loop that reaches interactWithElement; page
\* is what the page does if the pre-check lets the element through.
\* interactionTracker.addInteractedElement is called nowhere in the source:
\* interactedElements stays as the constructor left it
DriverInteract(page) ==
  /\ pc = "driver"
  /\ elementsToProcess # <<>>
  /\ \E element \in {Head(elementsToProcess)} :
     \E elementKey \in {createElementIdentifier(element)} :
     \E pre \in {PreCheck(element)} :
     \E o \in {IF pre = "pass" THEN page ELSE SkippedOutcome} :
     \E result \in {InteractionResult(o)} :
       LET processed == markProcessed(processedElements, elementKey)
           rest == Tail(elementsToProcess)
           new == IF result.success /\ Len(result.newElementsFound) > 0
                  THEN trulyNewElements(result.newElementsFound,
                                        previousElements, processed)
                  ELSE <<>>
       IN /\ ~alreadyProcessed(processedElements, elementKey)
          /\ pre # "pass" => page = FailOutcome
          /\ processedElements' = processed
          /\ interactWithElement(o)
          /\ processedJavaScriptFunctions' = recordFunction(element)
          /\ lastClick' = [href |-> element.href,
                           clicked |-> o.kind = "click",
                           found |-> o.newElements # <<>>,
                           ajax |-> o.ajax,
                           urlChanged |-> o.kind = "click" /\ causedNavigation(o),
                           formsCalled |-> RegistersNavigation(o),
                           wentBack |-> NavigationBranch(o)]
          /\ interacted' = Append(interacted, elementKey)
          /\ results' = Append(results, result)
          /\ elementsToProcess' = IF new # <<>> THEN unshift(rest, new) ELSE rest
          /\ previousElements' = previousElements \cup Keys(new)
          /\ reveals' = IF new # <<>>
                        THEN reveals \cup {[new |-> Keys(new),
                                            waiting |-> Keys(rest) \ processed]}
                        ELSE reveals
  /\ UNCHANGED <<configVars, ledgerVars, formVars, clickVars, pc, currentUrl,
                 curDepth, returned, elements>>

\* while (elementsToProcess.length > 0) ends; return results
DriverReturn ==
  /\ pc = "driver"
  /\ elementsToProcess = <<>>
  /\ pc' = "driverDone"
  /\ UNCHANGED <<frontierVars,
                 configVars, ledgerVars, formVars, execVars, currentUrl,
                 curDepth, results,
                 driverVars, lastOp, returned>>

NextDriver ==
  \/ DriverSkip
  \/ \E page \in DriverOutcomes : DriverInteract(page)
  \/ DriverReturn

SpecDriver == InitDriver /\ [][NextDriver]_vars

\* the place of an initial element in the document
DocumentOrder(e) == CASE e = eMore -> 1 [] e = eOut -> 2 [] OTHER -> 3

\* the page passes whose element list is in document order
InitDriverLive ==
  /\ InitDriver
  /\ \A i \in 1..Len(elements) - 1 :
       DocumentOrder(elements[i]) <= DocumentOrder(elements[i + 1])

\* the driver is not suspended for ever: every await of the loop returns
LiveSpecDriver ==
  /\ InitDriverLive
  /\ [][NextDriver]_vars
  /\ WF_vars(NextDriver)

----
(* The crawl under fair scheduling: the event loop runs every step of    *)
(* crawlPage that is ready, and the list of links of a page is finite    *)

\* one configuration: the largest depth and page cap explored
InitLive ==
  /\ Init
  /\ maxDepth = MaxDepthCfg
  /\ maxPagesPerDomain = MaxPagesCfg
  /\ ~ignoreQueryParams
  /\ ~ignoreHashFragments

LiveSpec ==
  /\ InitLive
  /\ [][Next]_vars
  /\ WF_vars(Start)
  /\ WF_vars(Dequeue)
  /\ WF_vars(Finish)
  /\ WF_vars(Analyze)
  /\ WF_vars(LinksDone)
  /\ WF_vars(ElementsDone)
  /\ WF_vars(AddNavigation)
  /\ WF_vars(PageDone)

----
(* interactWithForms: the Form Executor.  It is called by crawlPage on the *)
(* page of the dequeued URL and by interactWithElement on the page a click *)
(* navigated to; both callers await it, so calls never overlap.  Its state *)
(* (the tracker of formHandler.ts, the isolated pages, the results) is     *)
(* disjoint from the Frontier and from the driver.                         *)

MaxCalls == 2

batchSize == 3

\* everything interactWithForms leaves alone
nonFormVars == <<frontierVars, configVars, pc, currentUrl, curDepth, results,
                 lastOp, returned, driverVars, interactedElements, execVars>>

FormResult(formId, success, skipped, error, formIndex) ==
  [formId |-> formId, success |-> success, skipped |-> skipped,
   error |-> error, formIndex |-> formIndex]

\* the single result of a call on a URL the Ledger has as visited
SkippedPage == FormResult(<<"page_forms">>, TRUE, TRUE, "", 0)

\* the indices of forms.slice(i, i + batchSize)
BatchOf(i) == {k \in 1..Len(forms) : i < k /\ k <= i + batchSize}

\* interactWithForms(page) up to the first batch, or up to the early return
FormsCall(url, list) ==
  /\ formPc \in {"idle", "returned"}
  /\ calls < MaxCalls
  /\ calls' = calls + 1
  /\ formsUrl' = url
  /\ forms' = list
  /\ batchStart' = 0
  /\ task' = [k \in 1..Len(list) |-> "idle"]
  /\ values' = [k \in 1..Len(list) |-> <<>>]
  /\ recordedBy' = {}
  /\ IF hasUrlBeenVisited(url)
     THEN formPc' = "returned" /\ formResults' = <<SkippedPage>>
     ELSE formPc' = "loop" /\ formResults' = <<>>
  /\ UNCHANGED <<nonFormVars, interactedForms, visitedUrls, openPages,
                 successes>>

\* batch.map(async ...) runs every callback of the batch up to its first
\* await (form.evaluate)
BatchStart ==
  /\ formPc = "loop"
  /\ batchStart < Len(forms)
  /\ task' = [k \in 1..Len(forms) |->
                IF k \in BatchOf(batchStart) THEN "details" ELSE task[k]]
  /\ formPc' = "await"
  /\ UNCHANGED <<nonFormVars, interactedForms, visitedUrls, formsUrl, forms,
                 batchStart, values, openPages, formResults, calls, successes,
                 recordedBy>>

\* the batch is over as soon as one of its callbacks is
batchSettled_Any(i) == \E k \in BatchOf(i) : task[k] = "done"

\* await Promise.all(promises): no callback rejects, so all have returned
batchSettled(i) == \A k \in BatchOf(i) : task[k] = "done"

BatchEnd ==
  /\ formPc = "await"
  /\ batchSettled(batchStart)
  /\ batchStart' = batchStart + batchSize
  /\ formPc' = "loop"
  /\ UNCHANGED <<nonFormVars, interactedForms, visitedUrls, formsUrl, forms,
                 task, values, openPages, formResults, calls, successes,
                 recordedBy>>

\* the for loop ends; return results
FormsReturn ==
  /\ formPc = "loop"
  /\ batchStart >= Len(forms)
  /\ formPc' = "returned"
  /\ UNCHANGED <<nonFormVars, interactedForms, visitedUrls, formsUrl, forms,
                 batchStart, task, values, openPages, formResults, calls,
                 successes, recordedBy>>

\* form.evaluate returned: the Ledger check, then either the skipped result
\* or the call of context.newPage()
FormDetails(i) ==
  /\ i \in DOMAIN task
  /\ task[i] = "details"
  /\ IF hasFormBeenInteracted(formIdOf(forms[i]), formsUrl)
     THEN /\ task' = [task EXCEPT ![i] = "done"]
          /\ formResults' = Append(formResults,
               FormResult(formIdOf(forms[i]), TRUE, TRUE, "", i))
     ELSE /\ task' = [task EXCEPT ![i] = "opening"]
          /\ UNCHANGED formResults
  /\ UNCHANGED <<nonFormVars, interactedForms, visitedUrls, formPc, formsUrl,
                 forms, batchStart, values, openPages, calls, successes,
                 recordedBy>>

\* context.newPage() returned the isolated page
FormOpen(i) ==
  /\ i \in DOMAIN task
  /\ task[i] = "opening"
  /\ task' = [task EXCEPT ![i] = "filling"]
  /\ openPages' = openPages \cup {i}
  /\ UNCHANGED <<nonFormVars, interactedForms, visitedUrls, formPc, formsUrl,
                 forms, batchStart, values, formResults, calls, successes,
                 recordedBy>>

\* context.newPage() threw: no page, the catch block pushes the failure
FormOpenFails(i) ==
  /\ i \in DOMAIN task
  /\ task[i] = "opening"
  /\ task' = [task EXCEPT ![i] = "done"]
  /\ formResults' = Append(formResults,
       FormResult(failedFormIdOf(forms[i]), FALSE, FALSE, "newPage", i))
  /\ UNCHANGED <<nonFormVars, interactedForms, visitedUrls, formPc, formsUrl,
                 forms, batchStart, values, openPages, calls, successes,
                 recordedBy>>

\* formPage.goto, the form is found again and its fields are filled
FormFill(i) ==
  /\ i \in DOMAIN task
  /\ task[i] = "filling"
  /\ task' = [task EXCEPT ![i] = "submitting"]
  /\ values' = [values EXCEPT ![i] = fillFields(forms[i])]
  /\ UNCHANGED <<nonFormVars, interactedForms, visitedUrls, formPc, formsUrl,
                 forms, batchStart, openPages, formResults, calls, successes,
                 recordedBy>>

\* formPage.goto threw or the form was not found on the new page
FormFillFails(i) ==
  /\ i \in DOMAIN task
  /\ task[i] = "filling"
  /\ task' = [task EXCEPT ![i] = "failing"]
  /\ UNCHANGED <<nonFormVars, interactedForms, visitedUrls, formPc, formsUrl,
                 forms, batchStart, values, openPages, formResults, calls,
                 successes, recordedBy>>

\* the submission returned: addInteractedForm and results.push, up to the
\* await of formPage.close() in finally
FormSubmit(i) ==
  /\ i \in DOMAIN task
  /\ task[i] = "submitting"
  /\ task' = [task EXCEPT ![i] = "closing"]
  /\ addInteractedForm(formIdOf(forms[i]), formsUrl)
  /\ formResults' = Append(formResults,
       FormResult(formIdOf(forms[i]), TRUE, FALSE, "", i))
  /\ recordedBy' = recordedBy \cup {i}
  /\ \E e \in {<<formsUrl, formIdOf(forms[i])>>} :
       successes' = MapSet(successes, e,
                           IF e \in DOMAIN successes
                           THEN successes[e] + 1 ELSE 1)
  /\ UNCHANGED <<nonFormVars, formPc, formsUrl, forms, batchStart, values,
                 openPages, calls>>

\* the submission threw
FormSubmitFails(i) ==
  /\ i \in DOMAIN task
  /\ task[i] = "submitting"
  /\ task' = [task EXCEPT ![i] = "failing"]
  /\ UNCHANGED <<nonFormVars, interactedForms, visitedUrls, formPc, formsUrl,
                 forms, batchStart, values, openPages, formResults, calls,
                 successes, recordedBy>>

closeFormPage_OnSuccessOnly(i, failed) ==
  IF failed THEN openPages ELSE openPages \ {i}

\* finally { await formPage.close() }
closeFormPage(i, failed) == openPages \ {i}

\* formPage.close() returned after a success
FormClose(i) ==
  /\ i \in DOMAIN task
  /\ task[i] = "closing"
  /\ task' = [task EXCEPT ![i] = "done"]
  /\ openPages' = closeFormPage(i, FALSE)
  /\ UNCHANGED <<nonFormVars, interactedForms, visitedUrls, formPc, formsUrl,
                 forms, batchStart, values, formResults, calls, successes,
                 recordedBy>>

\* formPage.close() returned after a throw; the catch block pushes the
\* failure
FormCloseFailed(i) ==
  /\ i \in DOMAIN task
  /\ task[i] = "failing"
  /\ task' = [task EXCEPT ![i] = "done"]
  /\ openPages' = closeFormPage(i, TRUE)
  /\ formResults' = Append(formResults,
       FormResult(failedFormIdOf(forms[i]), FALSE, FALSE, "form", i))
  /\ UNCHANGED <<nonFormVars, interactedForms, visitedUrls, formPc, formsUrl,
                 forms, batchStart, values, calls, successes, recordedBy>>

\* the indices a page can have forms at
FormIndices == 1..4

NextForms ==
  \/ \E url \in FormPageUrls, list \in FormLists : FormsCall(url, list)
  \/ BatchStart
  \/ BatchEnd
  \/ FormsReturn
  \/ \E i \in FormIndices : FormDetails(i)
  \/ \E i \in FormIndices : FormOpen(i)
  \/ \E i \in FormIndices : FormOpenFails(i)
  \/ \E i \in FormIndices : FormFill(i)
  \/ \E i \in FormIndices : FormFillFails(i)
  \/ \E i \in FormIndices : FormSubmit(i)
  \/ \E i \in FormIndices : FormSubmitFails(i)
  \/ \E i \in FormIndices : FormClose(i)
  \/ \E i \in FormIndices : FormCloseFailed(i)

\* the Form Executor of a process whose crawl has made no step yet
SpecForms == InitLive /\ [][NextForms]_vars

----
(* interactWithElement step by step, inside the loop of                  *)
(* interactWithElements: the pre-check, locating the element, the        *)
(* response listener, smartClick, the waits, the classification and the  *)
(* navigation branch.  A step runs from one await to the next.  Calls    *)
(* are numbered in the order the driver makes them; a request carries    *)
(* the number of the call whose click sent it, 0 for the request the     *)
(* page itself has in flight when the pass begins                        *)

\* smartClick(page, element, options, maxAttempts = 3)
maxAttempts == 3

\* const strategies = [element.click, el.click() by page.evaluate,
\*                     page.mouse.click at the center of the bounding box]
strategies == <<"native", "script", "pointer">>

\* two links that call the same script and have the same text
eRunA == Element("link", "Run", "a.r1", "href", JsHref("load()"))

eRunB == Element("link", "Run", "a.r2", "href", JsHref("load()"))

\* a link to the visited page with a query string added
ePQ == Element("link", "Page 2", "a.q", "href",
               Url("a.com", <<"p">>, TRUE, <<<<"k", "1">>>>, <<>>))

\* the element lists analyzePage hands to the driver in this page pass: a
\* button listed twice, the two script links, links with a query string
\* inside and outside the allowed domains, links without one
ExecWork ==
  { <<eMore, eMore>>, <<eRunA, eRunB>>, <<eMore, eRunA>>, <<ePQ, eOutQ>>,
    <<eReadP, ePQ>>, <<eOut, eMore>> }

\* findClickableElements(page) after the waits: nothing clickable, or the
\* clicked element again
FoundAgain(found) == IF found THEN <<xElement>> ELSE <<>>

ErrCalled == "JavaScript function already called"
ErrScope == "URL out of allowed domains"
ErrVisited == "URL already visited"
ErrNotFound == "Element not found"
ErrNotVisible == "Element not visible"
ErrClick == "Failed to click element"
\* error instanceof Error ? error.message : String(error)
ErrThrown == "error.message"

\* the element list of the start page
StartWork == { <<eMore>> }

\* the page pass of the start URL at depth 0, or the one of http://a.com/p
\* at depth 1, under the smallest and the largest depth limit;
\* page.goto(currentUrl) has put the live page on the URL next()
\* returned, which the browser writes with its path
InitExec ==
  /\ maxDepth \in {1, MaxDepthCfg}
  /\ maxPagesPerDomain = MaxPagesCfg
  /\ ignoreQueryParams \in BOOLEAN
  /\ ignoreHashFragments = FALSE
  /\ queue = <<>>
  /\ currentUrl \in {normalizeUrl(startUrl), normalizeUrl(DriverPage)}
  /\ curDepth = IF currentUrl = normalizeUrl(startUrl) THEN 0 ELSE 1
  /\ visited = {normalizeUrl(startUrl), currentUrl}
  /\ currentDepth = MapSet(MapSet(<<>>, normalizeUrl(startUrl), 0),
                           currentUrl, curDepth)
  /\ returned = visited
  /\ lastOp = [op |-> "next", url |-> currentUrl, depth |-> 0, ret |-> TRUE]
  /\ pc = "driver"
  /\ results = <<>>
  /\ elements \in IF currentUrl = normalizeUrl(startUrl) THEN StartWork
                  ELSE ExecWork
  /\ elementsToProcess = elements
  /\ processedElements = {}
  /\ previousElements = Keys(elements)
  /\ interacted = <<>>
  /\ reveals = {}
  /\ lastClick = NoClick
  /\ InitLedger
  /\ InitForms
  /\ processedJavaScriptFunctions = {}
  /\ xpc = "loop"
  /\ xElement = NoElement
  /\ xResult = <<>>
  /\ attempts = <<>>
  /\ invoked = {}
  /\ listeners = {}
  /\ captured = <<>>
  /\ inflight = {0}
  /\ events = <<>>
  /\ pageUrl = hrefOf(currentUrl)
  /\ urlBefore = NoUrl
  /\ delivered = FALSE
  /\ changed = FALSE

\* the number of the interactWithElement call in progress
callId == Len(interacted)

\* the object interactWithElement returns: ajaxResponses is the array of
\* the call itself when it is not empty at the return, else undefined
ExecResult(o, error) ==
  [InteractionResult(o) EXCEPT !.ajaxResponses = captured[callId] # {}] @@
  [element |-> createElementIdentifier(xElement),
   error |-> error,
   ajaxRef |-> IF o.kind = "click" /\ captured[callId] # {}
               THEN callId ELSE 0]

\* results.push(result) and what the driver does with newElementsFound
\* before it takes the next element
pushResult_DropFailure(r) == IF r.success THEN Append(results, r) ELSE results

pushResult(r) == Append(results, r)

ExecReturns(r) ==
  \E new \in {IF r.success /\ Len(r.newElementsFound) > 0
              THEN trulyNewElements(r.newElementsFound, previousElements,
                                    processedElements)
              ELSE <<>>} :
    /\ results' = pushResult(r)
    /\ elementsToProcess' = IF new # <<>> THEN unshift(elementsToProcess, new)
                            ELSE elementsToProcess
    /\ previousElements' = previousElements \cup Keys(new)
    /\ xpc' = "loop"
    /\ xResult' = <<>>
    /\ attempts' = <<>>
    /\ urlBefore' = NoUrl
    /\ delivered' = FALSE
    /\ changed' = FALSE

\* if (processedElements.has(elementKey)) continue
ExecSkip ==
  /\ pc = "driver" /\ xpc = "loop"
  /\ elementsToProcess # <<>>
  /\ alreadyProcessed(processedElements,
                      createElementIdentifier(Head(elementsToProcess)))
  /\ elementsToProcess' = Tail(elementsToProcess)
  /\ UNCHANGED <<frontierVars, configVars, ledgerVars, formVars, execVars,
                 pc, currentUrl, curDepth, results, processedElements,
                 previousElements, lastOp, returned, interacted, reveals,
                 elements, lastClick>>

\* the driver takes an element and calls interactWithElement, which runs
\* the pre-check: an early return, or on to waitForFrameworkLoad
ExecBegin ==
  /\ pc = "driver" /\ xpc = "loop"
  /\ elementsToProcess # <<>>
  /\ \E element \in {Head(elementsToProcess)} :
     \E elementKey \in {createElementIdentifier(element)} :
     \E pre \in {PreCheck(element)} :
       /\ ~alreadyProcessed(processedElements, elementKey)
       /\ processedElements' = markProcessed(processedElements, elementKey)
       /\ elementsToProcess' = Tail(elementsToProcess)
       /\ interacted' = Append(interacted, elementKey)
       /\ captured' = Append(captured, {})
       /\ xElement' = element
       /\ events' = <<>>
       /\ processedJavaScriptFunctions' = recordFunction(element)
       /\ IF pre = "pass"
          THEN xpc' = "locate" /\ UNCHANGED results
          ELSE /\ xpc' = "loop"
               /\ results' = pushResult(
                    InteractionResult(SkippedOutcome) @@
                    [element |-> elementKey,
                     error |-> CASE pre = "called" -> ErrCalled
                                 [] pre = "scope" -> ErrScope
                                 [] OTHER -> ErrVisited,
                     ajaxRef |-> 0])
  /\ UNCHANGED <<frontierVars, configVars, ledgerVars, formVars, pc,
                 currentUrl, curDepth, previousElements, lastOp, returned,
                 reveals, elements, lastClick, xResult, attempts, invoked,
                 listeners, inflight, pageUrl, urlBefore, delivered, changed>>

\* everything an interactWithElement step leaves alone unless it says so
execFrame == <<configVars, ledgerVars, formVars, pc, currentUrl, curDepth,
               returned, processedElements, interacted, reveals, elements,
               lastClick, processedJavaScriptFunctions, xElement>>

\* page.$(selector) and its alternatives, then elementHandle.isVisible();
\* a visible element gets the response listener and smartClick starts
ExecLocate(found, visible) ==
  /\ xpc = "locate"
  /\ IF found /\ visible
     THEN /\ listeners' = listeners \cup {callId}
          /\ xpc' = "click"
          /\ UNCHANGED <<results, elementsToProcess, previousElements,
                         xResult, attempts, urlBefore, delivered, changed>>
     ELSE /\ ExecReturns(ExecResult(FailOutcome,
                           IF found THEN ErrNotVisible ELSE ErrNotFound))
          /\ UNCHANGED listeners
  /\ UNCHANGED <<frontierVars, lastOp, execFrame, invoked, captured,
                 inflight, events, pageUrl>>

\* what smartClick awaits next: strategy 0 is handleInterceptingElement,
\* which opens every round but the first
NextTry ==
  IF attempts = <<>> THEN [round |-> 0, strategy |-> 1]
  ELSE LET last == Last(attempts) IN
       IF last.strategy = 0 /\ ~last.ok
       THEN [round |-> last.round + 1, strategy |-> 0]
       ELSE IF last.strategy < Len(strategies)
       THEN [round |-> last.round, strategy |-> last.strategy + 1]
       ELSE [round |-> last.round + 1, strategy |-> 0]

lastTry_FirstRound(try) == try.round = 0

\* the await after which smartClick has nothing left to try: the third
\* strategy in the round attempt = maxAttempts - 1
lastTry(try) == try.round = maxAttempts - 1

\* the element's script runs when a click reaches the element
invokedBy(element) ==
  IF element.href # NoHref /\ IsJavaScript(element.href)
  THEN invoked \cup {functionKey(element)} ELSE invoked

\* whether the strategy, once it has resolved, has clicked the element:
\* the third one clicks only if (box), else it resolves without a click
strategyClicks(strategy, box) == strategy # Len(strategies) \/ box

\* one await of smartClick settles: ok is whether it resolved, box whether
\* element.boundingBox() gave a box (the third strategy reads it), request
\* whether the click made the page send an xhr/fetch request.  The first
\* strategy that resolves makes smartClick return true.  A rejection of
\* handleInterceptingElement in the last round is thrown on to the catch
\* of interactWithElement
ExecTry(ok, box, request) ==
  /\ xpc = "click"
  /\ box \/ (ok /\ NextTry.strategy = Len(strategies))
  /\ \E try \in {NextTry} :
     \E log \in {Append(attempts, [round |-> try.round,
                                   strategy |-> try.strategy, ok |-> ok])} :
       IF try.strategy # 0 /\ ok
       THEN /\ request => strategyClicks(try.strategy, box)
            /\ xpc' = "observe"
            /\ attempts' = <<>>
            /\ delivered' = strategyClicks(try.strategy, box)
            /\ urlBefore' = pageUrl
            /\ invoked' = IF strategyClicks(try.strategy, box)
                           THEN invokedBy(xElement) ELSE invoked
            /\ inflight' = IF request THEN inflight \cup {callId} ELSE inflight
            /\ UNCHANGED <<results, elementsToProcess, previousElements,
                           xResult, changed>>
       ELSE /\ ~request
            /\ UNCHANGED <<invoked, inflight>>
            /\ IF lastTry(try) /\ ~ok
                  /\ try.strategy \in {0, Len(strategies)}
               THEN ExecReturns(ExecResult(FailOutcome,
                                  IF try.strategy = 0 THEN ErrThrown
                                  ELSE ErrClick))
               ELSE /\ attempts' = log
                    /\ UNCHANGED <<xpc, results, elementsToProcess,
                                   previousElements, xResult, urlBefore,
                                   delivered, changed>>
  /\ UNCHANGED <<frontierVars, lastOp, execFrame, listeners, captured, events,
                 pageUrl>>

\* when a response arrives, seen from call i: before the click of the
\* call, between its click and its return, or after its return
arrival(i) ==
  IF i = callId /\ xpc = "click" THEN "before click"
  ELSE IF i = callId /\ xpc \in {"observe", "find", "forms", "back"}
  THEN "in time"
  ELSE "after return"

\* the page receives the response to a request: every onResponse listener
\* on the page pushes it into the array of its call
ResponseArrives(origin) ==
  /\ origin \in inflight
  /\ inflight' = inflight \ {origin}
  /\ captured' = [i \in DOMAIN captured |->
                    IF i \in listeners THEN captured[i] \cup {arrival(i)}
                    ELSE captured[i]]
  /\ UNCHANGED <<frontierVars, lastOp, execFrame, xpc, xResult, attempts,
                 invoked, listeners, events, results, elementsToProcess,
                 previousElements, pageUrl, urlBefore, delivered, changed>>

\* setTimeout(() => page.removeListener('response', onResponse),
\*            options.timeout)
ListenerCleanup(id) ==
  /\ id \in listeners
  /\ listeners' = listeners \ {id}
  /\ UNCHANGED <<frontierVars, lastOp, execFrame, xpc, xResult, attempts,
                 invoked, captured, inflight, events, results,
                 elementsToProcess, previousElements, pageUrl, urlBefore,
                 delivered, changed>>

\* await Promise.all([responsePromise, waitForDynamicChanges, ...])
\* settles: mutation is whether the page script saw a DOM mutation, a
\* history or hash change or a fetch/XHR call during the wait, the value
\* waitForDynamicChanges returns
ExecWait(mutation) ==
  /\ xpc = "observe"
  /\ xpc' = "find"
  /\ changed' = mutation
  /\ UNCHANGED <<frontierVars, lastOp, execFrame, xResult, attempts, invoked,
                 listeners, captured, inflight, events, results,
                 elementsToProcess, previousElements, pageUrl, urlBefore,
                 delivered>>

\* findClickableElements returns; page.url() and the classification, up
\* to the return or to the await of the navigation branch.  newUrl is
\* where the click has taken the page: without a click it is where it was
ExecObserve(newUrl, found) ==
  /\ xpc = "find"
  /\ delivered \/ newUrl = pageUrl
  /\ pageUrl' = newUrl
  /\ \E o \in {Outcome("click", newUrl, FoundAgain(found),
                        captured[callId] # {})} :
       IF RegistersNavigation(o)
       THEN /\ interactWithElement_add(o)
            /\ events' = <<[op |-> "add", url |-> o.newUrl,
                            depth |-> getCurrentDepth(currentUrl) + 1]>>
            /\ xpc' = "forms"
            /\ xResult' = o
            /\ UNCHANGED <<visited, results, elementsToProcess,
                           previousElements, attempts, urlBefore, delivered,
                           changed>>
       ELSE IF NavigationBranch(o)
       THEN /\ xpc' = "back"
            /\ xResult' = o
            /\ UNCHANGED <<frontierVars, lastOp, events, results,
                           elementsToProcess, previousElements, attempts,
                           urlBefore, delivered, changed>>
       ELSE /\ ExecReturns(ExecResult(o, ""))
            /\ UNCHANGED <<frontierVars, lastOp, events>>
  /\ UNCHANGED <<execFrame, invoked, listeners, captured, inflight>>

\* interactWithForms(page) returns, then visited.add(normalizedUrl)
ExecForms ==
  /\ xpc = "forms"
  /\ visited' = visitedAfterNavigation(xResult)
  /\ events' = Append(events, [op |-> "forms", url |-> xResult.newUrl,
                               depth |-> 0])
  /\ xpc' = "back"
  /\ UNCHANGED <<queue, currentDepth, lastOp, execFrame, xResult, attempts,
                 invoked, listeners, captured, inflight, results,
                 elementsToProcess, previousElements, pageUrl, urlBefore,
                 delivered, changed>>

\* page.goto(options.startUrl).catch(() => null) settles, arrived is
\* whether it resolved: a rejection is swallowed and the page stays where
\* it is; the result of the navigation branch is returned
ExecBack(arrived) ==
  /\ xpc = "back"
  /\ events' = Append(events, [op |-> "goto", url |-> currentUrl,
                               depth |-> 0])
  /\ pageUrl' = IF arrived THEN hrefOf(currentUrl) ELSE pageUrl
  /\ ExecReturns(ExecResult(xResult, ""))
  /\ UNCHANGED <<frontierVars, lastOp, execFrame, invoked, listeners,
                 captured, inflight>>

\* an await of interactWithElement rejects (the page closed, an evaluate
\* failed, page.$$('form') failed): catch (error) returns a failure
ExecThrows ==
  /\ xpc \in {"locate", "observe", "find", "forms"}
  /\ ExecReturns(ExecResult(FailOutcome, ErrThrown))
  /\ UNCHANGED <<frontierVars, lastOp, execFrame, invoked, listeners,
                 captured, inflight, events, pageUrl>>

\* while (elementsToProcess.length > 0) ends; return results
ExecDone ==
  /\ pc = "driver" /\ xpc = "loop"
  /\ elementsToProcess = <<>>
  /\ pc' = "driverDone"
  /\ UNCHANGED <<frontierVars, configVars, ledgerVars, formVars, execVars,
                 currentUrl, curDepth, results, driverVars, lastOp, returned>>

NextExec ==
  \/ ExecSkip
  \/ ExecBegin
  \/ \E found, visible \in BOOLEAN : ExecLocate(found, visible)
  \/ \E ok, box, request \in BOOLEAN : ExecTry(ok, box, request)
  \/ \E origin \in inflight : ResponseArrives(origin)
  \/ \E id \in listeners : ListenerCleanup(id)
  \/ \E mutation \in BOOLEAN : ExecWait(mutation)
  \/ \E newUrl \in DriverPageUrls \cup {pageUrl}, found \in BOOLEAN :
       ExecObserve(newUrl, found)
  \/ ExecForms
  \/ \E arrived \in BOOLEAN : ExecBack(arrived)
  \/ ExecThrows
  \/ ExecDone

SpecExec == InitExec /\ [][NextExec]_vars

----
(* The Frontier alone: add and next called in any order on URL strings   *)
(* that exercise normalizeUrl                                            *)

MaxFrontier == 3

\* URL strings with query parameters in two orders, with a key given
\* twice, with default documents, with separators at the end of the path,
\* of the query and of the fragment, and a string that is no URL
NormUrls ==
  { Url("a.com", <<"p">>, TRUE, << <<"k", "1">>, <<"a", "2">> >>, <<>>),
    Url("a.com", <<"p">>, TRUE, << <<"a", "2">>, <<"k", "1">> >>, <<>>),
    Url("a.com", <<"x", "index.php">>, TRUE,
        << <<"k", "1">>, <<"a", "2">> >>, <<>>),
    Url("a.com", <<"x", "index.php">>, TRUE,
        << <<"a", "2">>, <<"k", "1">> >>, <<>>),
    Url("a.com", <<"p">>, TRUE, << <<"a", "1">>, <<"a", "2">> >>, <<>>),
    Url("a.com", <<"p">>, TRUE, << <<"a", "2">>, <<"a", "1">> >>, <<>>),
    Url("a.com", <<"q", "index.html", "index.html">>, FALSE, <<>>, <<>>),
    Url("a.com", <<"q", "", "">>, FALSE, <<>>, <<>>),
    Url("a.com", <<"q">>, TRUE, << <<"k", "/">> >>, <<>>),
    Url("a.com", <<"q">>, FALSE, <<>>, <<"s", "", "">>),
    BadUrl }

\* new UrlQueue(maxDepth, maxPagesPerDomain, ignoreQueryParams,
\*              ignoreHashFragments)
InitNorm ==
  /\ queue = <<>>
  /\ visited = {}
  /\ currentDepth = <<>>
  /\ maxDepth = MaxDepthCfg
  /\ maxPagesPerDomain = MaxPagesCfg
  /\ ignoreQueryParams \in BOOLEAN
  /\ ignoreHashFragments \in BOOLEAN
  /\ pc = "frontier"
  /\ currentUrl = NoUrl
  /\ curDepth = 0
  /\ results = <<>>
  /\ elementsToProcess = <<>>
  /\ processedElements = {}
  /\ previousElements = {}
  /\ lastOp = NoOp
  /\ returned = {}
  /\ interacted = <<>>
  /\ reveals = {}
  /\ elements = <<>>
  /\ lastClick = NoClick
  /\ InitLedger
  /\ InitForms
  /\ InitExecutor

\* urlQueue.add(url, 1)
NormAdd(url) ==
  /\ pc = "frontier"
  /\ Len(queue) + Cardinality(visited) < MaxFrontier
  /\ add(url, 1)
  /\ UNCHANGED <<visited, returned, pc, currentUrl, curDepth, results,
                 configVars, ledgerVars, formVars, execVars, driverVars>>

\* urlQueue.next()
NormNext ==
  /\ pc = "frontier"
  /\ next
  /\ UNCHANGED <<currentDepth, pc, currentUrl, curDepth, results,
                 configVars, ledgerVars, formVars, execVars, driverVars>>

NextNorm ==
  \/ \E url \in NormUrls : NormAdd(url)
  \/ NormNext

SpecNorm == InitNorm /\ [][NextNorm]_vars

----
(* Properties of the URL Frontier *)

\* the step is a call of add (alone, or inside interactWithElement)
AddStep == lastOp' # lastOp /\ lastOp'.op = "add"

\* the step is a call of add by the Crawl Engine and nothing else
EngineAddStep == AddStep /\ pc \in {"start", "links", "post"}

\* the step is a call of next
NextStep == pc = "loop" /\ pc' = "page"

HostCount(host) ==
  Cardinality({v \in visited : v.ok /\ hostname(v) = host})

\* the admission conditions of add(url, depth), as section 4.1 lists them
Admissible(url, depth) ==
  LET n == normalizeUrl(url) IN
  /\ n \notin visited
  /\ n \notin Range(queue)
  /\ depth <= maxDepth
  /\ n.ok
  /\ hostname(n) \in allowedDomains
  /\ ~\E v \in visited : v.ok /\ hostname(v) = hostname(n) /\ pathname(v) = pathname(n)
  /\ HostCount(hostname(n)) < maxPagesPerDomain

\* C1: no normalized URL is at the same time in the queued set and in the
\* visited set
C1_QueuedVisitedDisjoint == Range(queue) \cap visited = {}

\* C2: add(url, depth) returns true and queues the normalized URL if and
\* only if the URL is neither visited nor queued, depth <= maxDepth, its
\* host is allowed, no visited URL has its host and path and the host is
\* below its page cap; otherwise it returns false and changes nothing
C2_AddAdmitsIff ==
  [][EngineAddStep =>
       /\ lastOp'.ret <=> Admissible(lastOp'.url, lastOp'.depth)
       /\ lastOp'.ret => normalizeUrl(lastOp'.url) \in Range(queue')
       /\ ~lastOp'.ret => UNCHANGED <<queue, visited, currentDepth>>]_vars

C5_DepthBounded ==
  /\ [](\A u \in Range(queue) \cup returned :
          u \in DOMAIN currentDepth /\ currentDepth[u] <= maxDepth)
  /\ [][(AddStep /\ lastOp'.depth > maxDepth) =>
          /\ ~lastOp'.ret
          /\ UNCHANGED <<queue, currentDepth>>
          /\ EngineAddStep => UNCHANGED visited]_vars

C5_Witness ==
  /\ lastOp.op = "add"
  /\ lastOp.depth > maxDepth
  /\ ~lastOp.ret
  /\ shouldProcessUrl(normalizeUrl(lastOp.url), maxDepth)

\* C6: once maxPagesPerDomain URLs of a host are visited, add returns false
\* for every URL of that host, whatever its depth, and leaves the Frontier
\* unchanged
C6_CapRefuses ==
  [][(/\ AddStep
      /\ lastOp'.url.ok
      /\ HostCount(hostname(lastOp'.url)) >= maxPagesPerDomain) =>
       /\ ~lastOp'.ret
       /\ UNCHANGED <<queue, currentDepth>>
       /\ EngineAddStep => UNCHANGED visited]_vars

C6_Witness ==
  /\ lastOp.op = "add"
  /\ ~lastOp.ret
  /\ lastOp.url.ok
  /\ HostCount(hostname(lastOp.url)) >= maxPagesPerDomain
  /\ lastOp.depth <= maxDepth
  /\ normalizeUrl(lastOp.url) \notin visited \cup Range(queue)
  /\ hostname(lastOp.url) \in allowedDomains
  /\ ~\E v \in visited : v.ok /\ hostname(v) = hostname(lastOp.url)
                              /\ pathname(v) = pathname(normalizeUrl(lastOp.url))

\* C7: for every host, the number of visited URLs of that host is at most
\* maxPagesPerDomain
C7_VisitedWithinCap ==
  \A v \in visited : v.ok => HostCount(hostname(v)) <= maxPagesPerDomain

----
(* Properties of the dynamic-depth driver *)

\* C8: in one page pass interactWithElement is never invoked twice with the
\* same element identity key
C8_NoKeyTwice ==
  \A i, j \in 1..Len(interacted) : i # j => interacted[i] # interacted[j]

C8_Witness ==
  /\ Len(interacted) >= 2
  /\ elementsToProcess # <<>>
  /\ createElementIdentifier(Head(elementsToProcess)) \in Range(interacted)

\* C9: the page pass terminates, and there is at most one interaction per
\* distinct key seen in the pass
C9_DriverTerminates ==
  /\ <>(pc = "driverDone")
  /\ [](Len(interacted) <= Cardinality(previousElements))

C9_Witness ==
  /\ pc = "driverDone"
  /\ Len(interacted) = Cardinality({createElementIdentifier(e) : e \in Elements})

\* C10: the elements an interaction reveals are all interacted with before
\* any element that was waiting in the work queue when they were revealed
C10_DepthFirst ==
  \A r \in reveals :
    (r.waiting \cap processedElements # {}) => r.new \subseteq processedElements

C10_Witness ==
  \E r \in reveals :
    /\ Cardinality(r.new) >= 2
    /\ r.waiting # {}
    /\ r.waiting \subseteq processedElements

\* C11: every element identity key the driver has interacted with is
\* recorded in the Interaction Ledger: hasElementBeenInteracted(key) is true
\* from the interaction on
C11_LedgerRecordsElement ==
  \A i \in 1..Len(interacted) : hasElementBeenInteracted(interacted[i])

\* the href resolves to a host outside allowedDomains
OutOfScope(href) == href.ok /\ ~isUrlAllowed(href, allowedDomains)

----
(* Properties of the Form Executor and of the form Ledger *)

\* C12: a call of interactWithForms on a URL on which a form was submitted
\* successfully before returns at once with the single skipped result: no
\* form callback starts, no page is opened, the Ledger is not written
C12_SubmittedUrlSkipped ==
  [][(/\ calls' = calls + 1
      /\ \E e \in DOMAIN successes : e[1] = formsUrl') =>
       /\ formPc' = "returned"
       /\ formResults' = <<SkippedPage>>
       /\ UNCHANGED <<interactedForms, visitedUrls, openPages>>]_vars

C12_Witness ==
  /\ calls = 2
  /\ formPc = "returned"
  /\ forms # <<>>
  /\ formResults = <<SkippedPage>>
  /\ \E e \in DOMAIN successes : e[1] = formsUrl

\* C13: a form whose result has success = false wrote nothing to the
\* Ledger, and every form entry of the Ledger stands for exactly one result
\* with success = true that is not a skip
C13_LedgerOnlyOnSuccess ==
  /\ \A i \in 1..Len(formResults) :
       ~formResults[i].success => formResults[i].formIndex \notin recordedBy
  /\ \A id \in interactedForms :
       \E e \in DOMAIN successes :
         createUniqueFormId(e[2], e[1]) = id /\ successes[e] = 1

\* C14: a form callback that has returned has closed its isolated page,
\* and when interactWithForms has returned no isolated page is open
C14_FormPagesClosed ==
  /\ \A i \in DOMAIN task : task[i] = "done" => i \notin openPages
  /\ formPc = "returned" => openPages = {}

C14_Witness ==
  /\ formPc = "returned"
  /\ openPages = {}
  /\ \E i \in 1..Len(formResults) :
       formResults[i].success /\ ~formResults[i].skipped
  /\ \E i \in 1..Len(formResults) : formResults[i].error = "form"
  /\ \E i \in 1..Len(formResults) : formResults[i].error = "newPage"

\* the form callbacks that have started and not returned
InFlight == {i \in DOMAIN task : task[i] \notin {"idle", "done"}}

\* C15: at most 3 form callbacks and isolated pages are in flight, and a
\* form of a later batch has not started while one of an earlier batch has
\* not returned
C15_BatchesOfThree ==
  /\ Cardinality(InFlight) <= 3
  /\ Cardinality(openPages) <= 3
  /\ \A i, j \in DOMAIN task :
       ((i - 1) \div 3 < (j - 1) \div 3 /\ task[j] # "idle") =>
         task[i] = "done"

C15_Witness ==
  /\ 4 \in openPages
  /\ Cardinality({i \in 1..Len(formResults) :
                    formResults[i].success /\ ~formResults[i].skipped}) = 3

\* C16: a form identifier recorded on one URL counts as interacted on every
\* URL
C16_FormIdentityCrossPage ==
  \A e \in DOMAIN successes :
    \A url \in FormPageUrls : hasFormBeenInteracted(e[2], url)

\* C19: when a form is about to be submitted every field of it that is not
\* a button carries a non-empty value
C19_FieldsFilled ==
  \A i \in DOMAIN task :
    task[i] = "submitting" =>
      \A k \in 1..Len(forms[i].fields) :
        ~IsButtonType(forms[i].fields[k].type) => values[i][k] # ""

----
(* Properties of the Interaction Executor *)

\* C17: an element whose href is out of scope is not clicked and its
\* result is SkippedDueToScope, and no out-of-scope URL is in the Frontier
C17_OutOfScopeNeverClicked ==
  /\ OutOfScope(lastClick.href) =>
       ~lastClick.clicked /\ Last(results).skippedDueToScope
  /\ \A u \in Range(queue) \cup visited : isUrlAllowed(u, allowedDomains)

\* the page handed to the driver has two buttons with one identity key
IdenticalButtons ==
  /\ Len(elements) = 2
  /\ elements[1].type = "button" /\ elements[2].type = "button"
  /\ createElementIdentifier(elements[1]) = createElementIdentifier(elements[2])

\* C18: the pass over a page with two identical-looking buttons returns a
\* result for each of the two, and each of them whose click was answered by
\* an AJAX response is a Success with dynamicChangesDetected
C18_IdenticalButtonsBothClicked ==
  (pc = "driverDone" /\ IdenticalButtons) =>
    LET key == createElementIdentifier(elements[1])
        clicks == {i \in 1..Len(interacted) : interacted[i] = key}
    IN /\ Cardinality(clicks) = 2
       /\ \A i \in clicks :
            results[i].ajaxResponses =>
              results[i].success /\ results[i].dynamicChangesDetected

----
(* The Interaction Executor and the Frontier *)

\* an interactWithElement call of the page pass returns
InteractStep == pc = "elements" /\ Len(results') = Len(results) + 1

\* C22: the Interaction Executor leaves the queued and the visited set of
\* the Frontier unchanged: queue changes only by the Crawl Engine's add,
\* visited grows only by next()
C22_ExecutorLeavesFrontier ==
  [][InteractStep => UNCHANGED <<queue, visited>>]_vars

\* C23: a failing page never halts the crawl: the crawl loop is left only
\* when the Frontier is empty
C23_LoopEndsOnlyWhenEmpty ==
  pc \in {"done", "fatal"} => queue = <<>>

----
(* Properties of interactWithElement, step by step *)

\* the classification takes the navigation branch with an in-scope URL
\* that is not visited
NavigationTaken == xpc = "find" /\ xpc' = "forms"

\* the call that took that branch returns from its last await
NavigationReturned == xpc = "back" /\ xpc' = "loop" /\ events # <<>>

CallBegins == xpc = "loop" /\ Len(interacted') = Len(interacted) + 1

\* an interactWithElement call returns and its result is pushed
CallReturns == Len(results') = Len(results) + 1

\* C24: every element identity the driver takes from its work queue gets
\* exactly one result, appended in processing order; a call that ends
\* without success, an exception included, yields a result with the reason,
\* and the driver goes on with the rest of the queue
C24_OneResultPerElement ==
  [][/\ Len(results') = Len(interacted') - (IF xpc' = "loop" THEN 0 ELSE 1)
     /\ Len(results') \in {Len(results), Len(results) + 1}
     /\ \A i \in 1..Len(results) : results'[i] = results[i]
     /\ \A i \in 1..Len(results') : results'[i].element = interacted'[i]
     /\ \A i, j \in 1..Len(interacted') :
          interacted'[i] = interacted'[j] => i = j
     /\ (CallReturns /\ ~Last(results').success) =>
          /\ Last(results').error # ""
          /\ pc' = "driver"
          /\ elementsToProcess' = IF xpc = "loop" THEN Tail(elementsToProcess)
                                  ELSE elementsToProcess]_vars

\* the first call threw, the second one succeeded
C24_Witness ==
  /\ Len(results) = 2
  /\ results[1].error = ErrThrown
  /\ results[2].success

\* the strategies of the log that failed
FailedClicks(log) ==
  {i \in 1..Len(log) : log[i].strategy >= 1 /\ ~log[i].ok}

\* the strategies tried in one round, in the order of the log
TriedIn(log, round) ==
  LET sel == SelectSeq(log, LAMBDA a : a.round = round /\ a.strategy >= 1)
  IN [i \in 1..Len(sel) |-> strategies[sel[i].strategy]]

\* an await of smartClick settles
ClickSettles == xpc = "click" /\ (attempts' # attempts \/ xpc' # xpc)

\* C25: smartClick runs at most 3 rounds; each round tries the native
\* click, then the script click, then the pointer click, and smartClick
\* stops at the first strategy that succeeds; when all strategies of all
\* rounds have failed the call ends with the failure 'Failed to click
\* element', without observation and without classification
C25_SmartClick ==
  [][ClickSettles =>
       /\ \A i \in 1..Len(attempts') : attempts'[i].round \in 0..2
       /\ \A round \in 0..2 :
            TriedIn(attempts', round) \in
              { <<>>, <<"native">>, <<"native", "script">>,
                <<"native", "script", "pointer">> }
       /\ \A i \in 1..Len(attempts') :
            attempts'[i].strategy >= 1 => ~attempts'[i].ok
       /\ xpc' \in {"click", "observe", "loop"}
       /\ xpc' = "observe" => UNCHANGED results
       /\ xpc' = "loop" => CallReturns /\ NextTry.round = 2
       /\ (Cardinality(FailedClicks(attempts)) = 8 /\ xpc' # "observe") =>
            (CallReturns /\ Last(results').error = ErrClick)
       /\ (CallReturns /\ Last(results').error = ErrClick) =>
            /\ ~Last(results').success
            /\ Last(results').newElementsFound = <<>>
            /\ ~Last(results').causedNavigation
            /\ UNCHANGED <<frontierVars, events>>]_vars

\* eight strategies have failed, the pointer click of the third round is
\* awaited
C25_Witness == xpc = "click" /\ Cardinality(FailedClicks(attempts)) = 8

\* C26: an element with a javascript: href is skipped as 'JavaScript
\* function already called' exactly when an earlier call with the same key
\* (script body, element text) invoked the script by clicking its element
C26_SkippedIffInvoked ==
  [][(CallBegins /\ Head(elementsToProcess).href # NoHref
                 /\ IsJavaScript(Head(elementsToProcess).href)) =>
       ((CallReturns /\ Last(results').error = ErrCalled) <=>
          functionKey(Head(elementsToProcess)) \in invoked)]_vars

\* C27: the pre-check skips no element whose http(s) href has a non-empty
\* query string, neither as out of scope nor as visited
C27_QueryNeverSkipped ==
  [][(CallBegins /\ queryParams(Head(elementsToProcess).href)) =>
       /\ xpc' = "locate"
       /\ UNCHANGED results]_vars

\* the link http://a.com/p?k=1 passed the pre-check although the Frontier
\* reports its URL as visited
C27_Witness ==
  /\ xpc = "locate"
  /\ xElement = ePQ
  /\ hasBeenVisited(hrefOf(ePQ.href))

\* C28: the ajaxResponses of a returned result hold no response that
\* arrived before the click of its call or after the call had returned
C28_ResponsesOfOwnClick ==
  \A i \in 1..Len(results) :
    results[i].ajaxRef # 0 =>
      captured[results[i].ajaxRef] \subseteq {"in time"}

----
(* Properties of normalizeUrl *)

\* C29: normalizeUrl is idempotent, for every URL string and every setting
\* of ignoreQueryParams and ignoreHashFragments
C29_NormalizeIdempotent ==
  \A u \in NormUrls : normalizeUrl(normalizeUrl(u)) = normalizeUrl(u)

\* the number of times a key/value pair occurs in a query
Occurrences(q, pair) == Cardinality({i \in 1..Len(q) : q[i] = pair})

\* two different URL strings that differ in the order of their query
\* parameters only
DifferInParamOrder(u, w) ==
  /\ u # w
  /\ u.ok /\ w.ok
  /\ [u EXCEPT !.q = <<>>] = [w EXCEPT !.q = <<>>]
  /\ Len(u.q) = Len(w.q)
  /\ \A pair \in Range(u.q) \cup Range(w.q) :
       Occurrences(u.q, pair) = Occurrences(w.q, pair)

\* C30: with ignoreQueryParams off, two URLs that differ in the order of
\* their query parameters only have the same normal form, and add admits
\* none of them while the other is queued or visited
C30_ParamOrderIrrelevant ==
  [][(AddStep /\ ~ignoreQueryParams) =>
       \A w \in NormUrls :
         DifferInParamOrder(w, lastOp'.url) =>
           /\ normalizeUrl(w) = normalizeUrl(lastOp'.url)
           /\ lastOp'.ret =>
                normalizeUrl(w) \notin Range(queue) \cup visited]_vars

----
(* Properties of the Frontier on strings that are no URL and on depths *)

\* C31: for a string that does not parse as a URL normalizeUrl returns the
\* string unchanged and add returns false (it returns: the call is a step
\* of the model) and leaves queued, visited and the recorded depths as they
\* were; no such string is ever queued, visited or given a depth
C31_MalformedNotAdmitted ==
  /\ [](\A u \in NormUrls : ~u.ok => normalizeUrl(u) = u)
  /\ [](\A u \in Range(queue) \cup visited \cup DOMAIN currentDepth : u.ok)
  /\ [][(AddStep /\ ~lastOp'.url.ok) =>
          /\ ~lastOp'.ret
          /\ UNCHANGED <<queue, visited, currentDepth>>]_vars

\* add has refused the string that is no URL, at a depth within maxDepth,
\* with a URL queued and a URL visited
C31_Witness ==
  /\ lastOp.op = "add"
  /\ lastOp.url = BadUrl
  /\ ~lastOp.ret
  /\ lastOp.depth <= maxDepth
  /\ queue # <<>>
  /\ visited # {}

\* C32: in a crawl the depth recorded for an admitted URL never changes
\* after admission and is the least depth add is called with for that URL
\* (no later add for it comes with a smaller one), and the depth crawlPage
\* gets from getCurrentDepth for the URL next() returned is the recorded one
C32_DepthFirstAndLeast ==
  [][/\ \A u \in DOMAIN currentDepth :
          u \in DOMAIN currentDepth' /\ currentDepth'[u] = currentDepth[u]
     /\ AddStep =>
          \A u \in {normalizeUrl(lastOp'.url)} :
            u \in DOMAIN currentDepth => currentDepth[u] <= lastOp'.depth
     /\ NextStep => curDepth' = currentDepth[Head(queue)]]_vars

----
(* Further properties of the Form Executor and of the form Ledger *)

\* the form callbacks that have passed the Ledger check and not yet
\* written the Ledger
Unrecorded == {i \in DOMAIN task : task[i] \in {"opening", "filling", "submitting"}}

\* C33: within one interactWithForms call no form identity is submitted
\* more than once: two forms of one identity are never both between their
\* Ledger check and their Ledger record, and never both write the Ledger
C33_IdentitySubmittedOnce ==
  /\ \A i, j \in Unrecorded :
       formIdOf(forms[i]) = formIdOf(forms[j]) => i = j
  /\ \A i, j \in recordedBy :
       formIdOf(forms[i]) = formIdOf(forms[j]) => i = j

\* the identifiers of the forms of the model
FormIds == {formIdOf(f) : f \in {fContact, fSearch, fLogin, fTagged, fFind}}

\* C38: hasFormBeenInteracted(f, u) is true only if addInteractedForm was
\* called before with exactly the identifier f, on u or on another URL
C38_InteractedOnlyIfRecorded ==
  \A f \in FormIds, u \in FormPageUrls :
    hasFormBeenInteracted(f, u) => \E e \in DOMAIN successes : e[2] = f

----
(* Further invariants of the Frontier in a crawl *)

\* C39: every URL of the queued set and of the visited set has a host that
\* is a member of allowedDomains (exact match), also after the navigations
\* the Interaction Executor registered
C39_FrontierInAllowedDomains ==
  \A u \in Range(queue) \cup visited :
    u.ok /\ hostname(u) \in allowedDomains

\* C40: no two URLs of the visited set have the same host and the same
\* path, that is, differ in their query string only
C40_OneVisitedPerPath ==
  \A u, w \in visited :
    (/\ u.ok /\ w.ok
     /\ hostname(u) = hostname(w)
     /\ pathname(u) = pathname(w)) => u = w

----
(* Further properties of interactWithElement and of smartClick             *)

\* smartClick returns true: the call goes on to its waits
ClickReported == xpc = "click" /\ xpc' = "observe"

\* C37: smartClick returns true only if one of its strategies has clicked
\* the element; the third strategy on an element without a bounding box
\* clicks nothing and is no successful click
C37_TrueOnlyIfClicked ==
  [][ClickReported => delivered']_vars

\* C34: when interactWithElement is called for an element of the work
\* queue, the live page is on the start URL of the pass, also after an
\* earlier interaction of the pass has changed the page URL
C34_EachCallStartsOnStartUrl ==
  [][CallBegins => pageUrl = hrefOf(currentUrl)]_vars

\* C35: a result has causedNavigation only if the page URL after the click
\* differs from the page URL just before the click
C35_NavigationOnlyIfUrlChanged ==
  [][(CallReturns /\ Last(results').causedNavigation) =>
       Last(results').newUrl # urlBefore]_vars

\* the page URL read after the click of the returning call differs from
\* the one before the click
UrlChanged ==
  IF xpc = "back" THEN xResult.newUrl # urlBefore ELSE pageUrl' # urlBefore

\* C36: a successful result has dynamicChangesDetected only if the wait
\* saw a DOM mutation, a history or hash change or a fetch/XHR call, or an
\* AJAX response of the click was captured, or new elements were found, or
\* the page URL changed
C36_ChangeOnlyIfObserved ==
  [][(/\ CallReturns
      /\ Last(results').success
      /\ Last(results').dynamicChangesDetected) =>
       \/ changed
       \/ Last(results').ajaxResponses
       \/ Last(results').newElementsFound # <<>>
       \/ UrlChanged]_vars

====
